---- MODULE Spec2Model ----
(***************************************************************************)
(* A model of ts-generator-builder: the import registry                    *)
(* (ImportsBuilderImpl), the usage tracker (TypeUsageTracker), the section *)
(* assembler (SectionImpl) and the top-level generator (GeneratorImpl).    *)
(*                                                                         *)
(* Text is modelled as the sequence of its lexical tokens: a word (a       *)
(* maximal run of [A-Za-z0-9_]) is one token, every punctuation character  *)
(* is one token, a line feed is the token "\n" and other white space only  *)
(* separates tokens.                                                       *)
(***************************************************************************)
EXTENDS Integers, Sequences, FiniteSets, TLC

VARIABLES
    builder,      \* SpecRegistry: one ImportsBuilderImpl instance;
                  \* SpecStatements: the builder the last add callback set up
    call,         \* the last call made
    rendered,     \* SpecRegistry: text returned by the last generate() call
    sections,     \* GeneratorImpl.sections
    building,     \* the SectionImpl whose section() callback is running
    output,       \* text returned by generate(), until section() is called
    prevOutput,   \* text returned by the generate() call before that one
    sectionCodes, \* texts SectionImpl.generate() returned in that generate()
    modified,     \* was the generator changed since the last generate()
    generates,    \* number of generate() calls made
    usageTracker, \* TypeUsageTracker.usedIdentifiers of the tracker at hand
    raised        \* the error that the last operation raised, if any

vars == <<builder, call, rendered, sections, building, output, prevOutput,
          sectionCodes, modified, generates, usageTracker, raised>>

generatorVars == <<sections, building, output, prevOutput, sectionCodes,
                   modified, generates, usageTracker, raised>>

----------------------------------------------------------------------------
(* Bounds and vocabulary *)

MaxNamed == 2

\* identifiers the modelled programs use; Capitalized are those matching
\* [A-Z][a-zA-Z0-9_]*
Idents == {"User", "useState"}
\* the React hooks of the usage-detection scenario
Hooks == {"useState", "useEffect", "useContext"}
Capitalized == {"User"}

\* JavaScript's undefined, for an omitted alias or an absent binding name
Undefined == "undefined"

----------------------------------------------------------------------------
(* ImportsBuilderImpl *)

\* new ImportsBuilderImpl(moduleSpecifier, options)
NewImportsBuilder(moduleSpecifier, options) ==
    [moduleSpecifier |-> moduleSpecifier,
     namedImports    |-> <<>>,
     defaultImport   |-> <<>>,
     namespaceImport |-> <<>>,
     includeUnused   |-> options.includeUnused,
     typeOnly        |-> options.typeOnly]

DefaultImportOptions == [includeUnused |-> FALSE, typeOnly |-> FALSE]

\* the identifier a named import puts in scope: imp.alias || imp.name
LocalName(imp) == IF imp.alias # Undefined THEN imp.alias ELSE imp.name

\* named(name, alias?)
Named(b, name, alias) ==
    IF \E i \in 1..Len(b.namedImports) :
           b.namedImports[i].name = name /\ b.namedImports[i].alias = alias
    THEN b
    ELSE [b EXCEPT !.namedImports =
             Append(@, [name |-> name, alias |-> alias, used |-> FALSE])]

\* namedMultiple(names)
RECURSIVE NamedMultiple(_, _)
NamedMultiple(b, names) ==
    IF names = <<>> THEN b
    ELSE NamedMultiple(Named(b, Head(names), Undefined), Tail(names))

DefaultKeepingFirst(b, name) ==
    IF b.defaultImport # <<>> THEN b
    ELSE [b EXCEPT !.defaultImport = <<[name |-> name, used |-> FALSE]>>]

\* default(name)
Default(b, name) ==
    [b EXCEPT !.defaultImport = <<[name |-> name, used |-> FALSE]>>]

NamespaceKeepingMark(b, name) ==
    [b EXCEPT !.namespaceImport =
        <<[name |-> name,
           used |-> b.namespaceImport # <<>> /\ b.namespaceImport[1].used]>>]

\* namespace(name)
Namespace(b, name) ==
    [b EXCEPT !.namespaceImport = <<[name |-> name, used |-> FALSE]>>]

MarkUsedMovingFirst(b, name) ==
    LET hits == {i \in 1..Len(b.namedImports) : b.namedImports[i].name = name}
    IN  IF hits = {} THEN b
        ELSE LET first == CHOOSE i \in hits : \A j \in hits : i <= j
             IN  [b EXCEPT !.namedImports =
                     <<[@[first] EXCEPT !.used = TRUE]>>
                     \o SubSeq(@, 1, first - 1)
                     \o SubSeq(@, first + 1, Len(@))]

MarkUsedEveryMatch(b, name) ==
    [b EXCEPT !.namedImports = [i \in 1..Len(@) |->
        IF @[i].name = name THEN [@[i] EXCEPT !.used = TRUE] ELSE @[i]]]

\* markUsed(name): Array.find returns the first match by exported name
MarkUsed(b, name) ==
    LET hits == {i \in 1..Len(b.namedImports) : b.namedImports[i].name = name}
    IN  IF hits = {} THEN b
        ELSE LET first == CHOOSE i \in hits : \A j \in hits : i <= j
             IN  [b EXCEPT !.namedImports[first].used = TRUE]

\* markDefaultUsed()
MarkDefaultUsed(b) ==
    IF b.defaultImport # <<>>
    THEN [b EXCEPT !.defaultImport[1].used = TRUE]
    ELSE b

\* markNamespaceUsed()
MarkNamespaceUsed(b) ==
    IF b.namespaceImport # <<>>
    THEN [b EXCEPT !.namespaceImport[1].used = TRUE]
    ELSE b

\* TypeUsageTracker.isUsed(identifier) on a tracker's identifier set
IsUsed(usedIdentifiers, identifier) == identifier \in usedIdentifiers

MarkUsedFromTrackerRevoking(b, usedIdentifiers) ==
    LET Reassign(imports) == [i \in 1..Len(imports) |->
            [imports[i] EXCEPT
                !.used = IsUsed(usedIdentifiers, imports[i].name)]]
    IN [b EXCEPT !.namedImports = Reassign(@),
                 !.defaultImport = Reassign(@),
                 !.namespaceImport = Reassign(@)]

\* markUsedFromTracker(usageTracker)
MarkUsedFromTracker(b, usedIdentifiers) ==
    [b EXCEPT
       !.namedImports = [i \in 1..Len(@) |->
            IF IsUsed(usedIdentifiers, @[i].name)
            THEN [@[i] EXCEPT !.used = TRUE] ELSE @[i]],
       !.defaultImport = [i \in 1..Len(@) |->
            IF IsUsed(usedIdentifiers, @[i].name)
            THEN [@[i] EXCEPT !.used = TRUE] ELSE @[i]],
       !.namespaceImport = [i \in 1..Len(@) |->
            IF IsUsed(usedIdentifiers, @[i].name)
            THEN [@[i] EXCEPT !.used = TRUE] ELSE @[i]]]

\* Array.join(separator) on a sequence of token sequences
RECURSIVE Join(_, _)
Join(parts, separator) ==
    IF parts = <<>> THEN <<>>
    ELSE IF Len(parts) = 1 THEN parts[1]
    ELSE parts[1] \o separator \o Join(Tail(parts), separator)

CreateImportClauseNamedFirst(defaultImportName, namespaceImportName, namedImports) ==
    LET name == defaultImportName
        namedBindings ==
            IF Len(namedImports) > 0
            THEN [kind |-> "NamedImports", name |-> Undefined,
                  elements |-> [i \in 1..Len(namedImports) |->
                      [propertyName |->
                           IF namedImports[i].alias # Undefined
                           THEN namedImports[i].name ELSE Undefined,
                       name |-> LocalName(namedImports[i])]]]
            ELSE IF namespaceImportName # Undefined
            THEN [kind |-> "NamespaceImport", name |-> namespaceImportName,
                  elements |-> <<>>]
            ELSE [kind |-> Undefined, name |-> Undefined, elements |-> <<>>]
    IN  [defined |-> name # Undefined \/ namedBindings.kind # Undefined,
         name |-> name, namedBindings |-> namedBindings]

\* createImportClause(defaultImportName, namespaceImportName, namedImports):
\* the clause's name and namedBindings, or Undefined when there is neither
CreateImportClause(defaultImportName, namespaceImportName, namedImports) ==
    LET name == defaultImportName
        namedBindings ==
            IF namespaceImportName # Undefined
            THEN [kind |-> "NamespaceImport", name |-> namespaceImportName,
                  elements |-> <<>>]
            ELSE IF Len(namedImports) > 0
            THEN [kind |-> "NamedImports", name |-> Undefined,
                  elements |-> [i \in 1..Len(namedImports) |->
                      [propertyName |->
                           IF namedImports[i].alias # Undefined
                           THEN namedImports[i].name ELSE Undefined,
                       name |-> LocalName(namedImports[i])]]]
            ELSE [kind |-> Undefined, name |-> Undefined, elements |-> <<>>]
    IN  [defined |-> name # Undefined \/ namedBindings.kind # Undefined,
         name |-> name, namedBindings |-> namedBindings]

\* the printer's text of one import specifier
PrintImportSpecifier(element) ==
    IF element.propertyName # Undefined
    THEN <<element.propertyName, "as", element.name>>
    ELSE <<element.name>>

\* printNode(importDeclaration): the printer's text of an import declaration
PrintImportDeclaration(typeOnly, clause, moduleSpecifier) ==
    LET bindings == clause.namedBindings
        bindingsText ==
            IF bindings.kind = "NamespaceImport"
            THEN <<"*", "as", bindings.name>>
            ELSE IF bindings.kind = "NamedImports"
            THEN <<"{">>
                 \o Join([i \in 1..Len(bindings.elements) |->
                             PrintImportSpecifier(bindings.elements[i])], <<",">>)
                 \o <<"}">>
            ELSE <<>>
    IN  IF ~clause.defined
        THEN <<"import", "\"", moduleSpecifier, "\"", ";">>
        ELSE <<"import">>
             \o (IF typeOnly THEN <<"type">> ELSE <<>>)
             \o (IF clause.name # Undefined THEN <<clause.name>> ELSE <<>>)
             \o (IF clause.name # Undefined /\ bindings.kind # Undefined
                 THEN <<",">> ELSE <<>>)
             \o bindingsText
             \o <<"from", "\"", moduleSpecifier, "\"", ";">>

\* ImportsBuilderImpl.generate()
ImportsGenerate(b) ==
    LET filteredNamedImports ==
            IF b.includeUnused THEN b.namedImports
            ELSE SelectSeq(b.namedImports, LAMBDA imp : imp.used)
        includeDefault ==
            b.defaultImport # <<>>
            /\ (b.includeUnused \/ b.defaultImport[1].used)
        includeNamespace ==
            b.namespaceImport # <<>>
            /\ (b.includeUnused \/ b.namespaceImport[1].used)
    IN  IF Len(filteredNamedImports) = 0 /\ ~includeDefault /\ ~includeNamespace
        THEN <<>>
        ELSE PrintImportDeclaration(
                 b.typeOnly,
                 CreateImportClause(
                     IF includeDefault THEN b.defaultImport[1].name ELSE Undefined,
                     IF includeNamespace THEN b.namespaceImport[1].name ELSE Undefined,
                     filteredNamedImports),
                 b.moduleSpecifier)

----------------------------------------------------------------------------
(* SpecRegistry: one import registry driven through its public methods *)

\* a record of the last call: the method, its arguments, for
\* markUsedFromTracker the tracker's identifier set, and for default() and
\* namespace() the name of the binding that the call overwrote
Call(op, name, alias, tracker) ==
    [op |-> op, name |-> name, alias |-> alias, tracker |-> tracker,
     options |-> DefaultImportOptions, replaced |-> Undefined]

NoCall == Call("new", Undefined, Undefined, {})

RegistryOptions ==
    {[includeUnused |-> FALSE, typeOnly |-> FALSE],
     [includeUnused |-> TRUE,  typeOnly |-> FALSE],
     [includeUnused |-> FALSE, typeOnly |-> TRUE]}

GeneratorIdle ==
    /\ sections = <<>>
    /\ building = <<>>
    /\ output = <<>>
    /\ prevOutput = <<>>
    /\ sectionCodes = <<>>
    /\ modified = FALSE
    /\ generates = 0
    /\ usageTracker = {}
    /\ raised = Undefined

InitRegistry ==
    /\ \E options \in RegistryOptions :
           builder = NewImportsBuilder("react", options)
    /\ call = NoCall
    /\ rendered = <<>>
    /\ GeneratorIdle

\* a call that returns the builder (this) for chaining
Chained(op, name, alias, b) ==
    /\ builder' = b
    /\ call' = Call(op, name, alias, {})
    /\ rendered' = <<>>
    /\ UNCHANGED generatorVars

RNamed ==
    \E name \in Idents, alias \in Idents \cup {Undefined} :
        /\ Len(Named(builder, name, alias).namedImports) <= MaxNamed
        /\ Chained("named", name, alias, Named(builder, name, alias))

RNamedMultiple ==
    \E n1 \in Idents, n2 \in Idents :
        /\ Len(NamedMultiple(builder, <<n1, n2>>).namedImports) <= MaxNamed
        /\ Chained("namedMultiple", n1, n2, NamedMultiple(builder, <<n1, n2>>))

\* the name of the binding held in an optional field, Undefined if none
BindingName(binding) ==
    IF binding = <<>> THEN Undefined ELSE binding[1].name

RDefault ==
    \E name \in Idents :
        /\ builder' = Default(builder, name)
        /\ call' = [Call("default", name, Undefined, {}) EXCEPT
                       !.replaced = BindingName(builder.defaultImport)]
        /\ rendered' = <<>>
        /\ UNCHANGED generatorVars

RNamespace ==
    \E name \in Idents :
        /\ builder' = Namespace(builder, name)
        /\ call' = [Call("namespace", name, Undefined, {}) EXCEPT
                       !.replaced = BindingName(builder.namespaceImport)]
        /\ rendered' = <<>>
        /\ UNCHANGED generatorVars

RMarkUsed ==
    \E name \in Idents :
        Chained("markUsed", name, Undefined, MarkUsed(builder, name))

RMarkDefaultUsed ==
    Chained("markDefaultUsed", Undefined, Undefined, MarkDefaultUsed(builder))

RMarkNamespaceUsed ==
    Chained("markNamespaceUsed", Undefined, Undefined, MarkNamespaceUsed(builder))

RMarkUsedFromTracker ==
    \E usedIdentifiers \in SUBSET Idents :
        /\ builder' = MarkUsedFromTracker(builder, usedIdentifiers)
        /\ call' = Call("markUsedFromTracker", Undefined, Undefined,
                         usedIdentifiers)
        /\ rendered' = <<>>
        /\ UNCHANGED generatorVars

RGenerate ==
    /\ rendered' = ImportsGenerate(builder)
    /\ call' = Call("generate", Undefined, Undefined, {})
    /\ UNCHANGED builder
    /\ UNCHANGED generatorVars

NextRegistry ==
    \/ RNamed
    \/ RNamedMultiple
    \/ RDefault
    \/ RNamespace
    \/ RMarkUsed
    \/ RMarkDefaultUsed
    \/ RMarkNamespaceUsed
    \/ RMarkUsedFromTracker
    \/ RGenerate

SpecRegistry == InitRegistry /\ [][NextRegistry]_vars

----------------------------------------------------------------------------
(* TypeUsageTracker: string scanning *)

\* the quote characters of the string-literal pattern; the modelled texts
\* hold no template literal, so the back quote is left out
Quotes == {"\"", "'"}

\* the keyword stoplist of scanStringContent
Stoplist == {"const", "let", "var", "function", "return", "if", "else", "for",
             "while", "do", "switch", "case", "break", "continue", "true",
             "false", "null", "undefined"}

\* words of the modelled texts that match [a-zA-Z_][a-zA-Z0-9_]*
IdentifierWords ==
    Idents \cup Hooks \cup Stoplist
    \cup {"Alpha", "Beta", "setup", "user", "plain", "boolean", "interface",
          "extends", "implements", "typeof", "keyof", "as", "from", "import",
          "type", "End", "Generated", "TypeScript", "code", "x", "doThing"}

\* words matching [A-Z][a-zA-Z0-9_]*
CapitalizedWords ==
    Capitalized \cup {"Alpha", "Beta", "End", "Generated", "TypeScript"}

\* first position at or after i whose token satisfies the test, 0 if none
RECURSIVE NextQuote(_, _)
NextQuote(code, i) ==
    IF i > Len(code) THEN 0
    ELSE IF code[i] \in Quotes THEN i
    ELSE NextQuote(code, i + 1)

\* position of the first token after i that is not white space, 0 if none
RECURSIVE SkipLineFeeds(_, _)
SkipLineFeeds(code, i) ==
    IF i > Len(code) THEN 0
    ELSE IF code[i] = "\n" THEN SkipLineFeeds(code, i + 1)
    ELSE i

\* scanStringContent(content): callees of identifier( and identifiers that
\* are not in the stoplist
ScanStringContent(content) ==
    LET functionCalls ==
            {content[i] : i \in {j \in 1..Len(content) :
                /\ content[j] \in IdentifierWords
                /\ SkipLineFeeds(content, j + 1) # 0
                /\ content[SkipLineFeeds(content, j + 1)] = "("}}
        identifiers ==
            {content[i] : i \in {j \in 1..Len(content) :
                content[j] \in IdentifierWords /\ content[j] \notin Stoplist}}
    IN  functionCalls \cup identifiers

ScanStringLiteralsSkipped(code, i) == {}

\* the string-literal loop of scanString, from position i on
RECURSIVE ScanStringLiterals(_, _)
ScanStringLiterals(code, i) ==
    LET open == NextQuote(code, i)
        close == IF open = 0 THEN 0 ELSE NextQuote(code, open + 1)
    IN  IF open = 0 \/ close = 0 THEN {}
        ELSE (IF close > open + 1
              THEN ScanStringContent(SubSeq(code, open + 1, close - 1))
              ELSE {})
             \cup ScanStringLiterals(code, close + 1)

\* the keyword patterns of scanString: ": X", "extends X", "implements X",
\* "typeof X", "keyof X"
PatternMatches(code) ==
    {code[SkipLineFeeds(code, i + 1)] : i \in {j \in 1..Len(code) :
        /\ code[j] \in {":", "extends", "implements", "typeof", "keyof"}
        /\ SkipLineFeeds(code, j + 1) # 0
        /\ code[SkipLineFeeds(code, j + 1)] \in IdentifierWords}}

\* scanString(code): the identifiers one call adds to usedIdentifiers
ScanString(code) ==
    ScanStringLiterals(code, 1)
    \cup {code[i] : i \in {j \in 1..Len(code) : code[j] \in CapitalizedWords}}
    \cup PatternMatches(code)

----------------------------------------------------------------------------
(* TypeUsageTracker: node scanning *)

\* AST nodes: the kind, the text of an identifier and the children that
\* ts.forEachChild visits, in order
Identifier(text) == [kind |-> "Identifier", text |-> text, children |-> <<>>]
QualifiedName(left, right) ==
    [kind |-> "QualifiedName", text |-> "", children |-> <<left, right>>]
TypeReference(typeName) ==
    [kind |-> "TypeReference", text |-> "", children |-> <<typeName>>]
PropertyAccessExpression(expression, name) ==
    [kind |-> "PropertyAccessExpression", text |-> "",
     children |-> <<expression, name>>]
CallExpression(expression, arguments) ==
    [kind |-> "CallExpression", text |-> "",
     children |-> <<expression>> \o arguments]

\* scanQualifiedName(qualifiedName): the identifiers it adds
RECURSIVE ScanQualifiedName(_)
ScanQualifiedName(qualifiedName) ==
    LET left == qualifiedName.children[1]
        right == qualifiedName.children[2]
    IN  (IF left.kind = "Identifier" THEN {left.text}
         ELSE IF left.kind = "QualifiedName" THEN ScanQualifiedName(left)
         ELSE {})
        \cup {right.text}

\* the rightmost identifier of a type name
RECURSIVE Leaf(_)
Leaf(node) ==
    IF node.kind = "Identifier" THEN {node.text}
    ELSE IF node.children = <<>> THEN {}
    ELSE Leaf(node.children[Len(node.children)])

ScanNodeLeafOnly(node) == Leaf(node)

\* scanNode(node): what visit adds for the node, then for its children
RECURSIVE ScanNode(_)
ScanNode(node) ==
    (CASE node.kind = "Identifier" -> {node.text}
       [] node.kind = "TypeReference" ->
            IF node.children[1].kind = "Identifier"
            THEN {node.children[1].text}
            ELSE IF node.children[1].kind = "QualifiedName"
            THEN ScanQualifiedName(node.children[1])
            ELSE {}
       [] node.kind = "QualifiedName" -> ScanQualifiedName(node)
       [] node.kind \in {"PropertyAccessExpression", "CallExpression"} ->
            IF node.children[1].kind = "Identifier"
            THEN {node.children[1].text}
            ELSE {}
       [] OTHER -> {})
    \cup UNION {ScanNode(node.children[i]) : i \in 1..Len(node.children)}

----------------------------------------------------------------------------
(* SpecTracker: one TypeUsageTracker driven through scanNode, scanString   *)
(* and clear                                                               *)

\* the nodes scanned, by their source text
ScannedNodes == {"Foo.Bar", "A.B.C", "User", "obj.prop", "doThing()"}
NodeOf(source) ==
    CASE source = "Foo.Bar" ->
           TypeReference(QualifiedName(Identifier("Foo"), Identifier("Bar")))
      [] source = "A.B.C" ->
           TypeReference(QualifiedName(
               QualifiedName(Identifier("A"), Identifier("B")),
               Identifier("C")))
      [] source = "User" -> TypeReference(Identifier("User"))
      [] source = "obj.prop" ->
           PropertyAccessExpression(Identifier("obj"), Identifier("prop"))
      [] source = "doThing()" -> CallExpression(Identifier("doThing"), <<>>)

\* the code strings scanned, by their source text
ScannedCodes ==
    {"'if (x) { doThing(); }'", "'return useState(0)'", "user: User",
     "interface Alpha extends Beta", "''"}
CodeOf(source) ==
    CASE source = "'if (x) { doThing(); }'" ->
           <<"'", "if", "(", "x", ")", "{", "doThing", "(", ")", ";", "}", "'">>
      [] source = "'return useState(0)'" ->
           <<"'", "return", "useState", "(", "0", ")", "'">>
      [] source = "user: User" -> <<"user", ":", "User">>
      [] source = "interface Alpha extends Beta" ->
           <<"interface", "Alpha", "extends", "Beta">>
      [] source = "''" -> <<"'", "'">>

\* the tracker is the one state component that the calls change
TrackerCall(op, source, identifiers) ==
    /\ usageTracker' = identifiers
    /\ call' = Call(op, source, Undefined, {})
    /\ UNCHANGED <<builder, rendered, sections, building, output, prevOutput,
                   sectionCodes, modified, generates, raised>>

InitTracker ==
    /\ builder = NewImportsBuilder("react", DefaultImportOptions)
    /\ call = NoCall
    /\ rendered = <<>>
    /\ GeneratorIdle

TScanNode ==
    \E source \in ScannedNodes :
        TrackerCall("scanNode", source,
                    usageTracker \cup ScanNode(NodeOf(source)))

TScanString ==
    \E source \in ScannedCodes :
        TrackerCall("scanString", source,
                    usageTracker \cup ScanString(CodeOf(source)))

TClear == TrackerCall("clear", Undefined, {})

NextTracker ==
    \/ TScanNode
    \/ TScanString
    \/ TClear

SpecTracker == InitTracker /\ [][NextTracker]_vars

----------------------------------------------------------------------------
(* SectionImpl *)

\* the ascending sequence of the members of a set of positions
RECURSIVE Ascending(_)
Ascending(S) ==
    IF S = {} THEN <<>>
    ELSE LET m == CHOOSE x \in S : \A y \in S : x <= y
         IN  <<m>> \o Ascending(S \ {m})

\* the concatenation of a sequence of token sequences
RECURSIVE Flatten(_)
Flatten(parts) ==
    IF parts = <<>> THEN <<>> ELSE Head(parts) \o Flatten(Tail(parts))

\* does text hold part as a contiguous run of tokens
Contains(text, part) ==
    \E i \in 0..(Len(text) - Len(part)) :
        \A k \in 1..Len(part) : text[i + k] = part[k]

\* String.prototype.localeCompare on the display names the model uses:
\* their collation order
CollationOrder == <<"Alpha", "Beta", "doWhile", "for", "if", "switch", "while">>
LocaleCompareLess(a, b) ==
    \E i, j \in 1..Len(CollationOrder) :
        CollationOrder[i] = a /\ CollationOrder[j] = b /\ i < j

\* Array.prototype.sort is stable: position p goes before the first
\* position whose name compares greater
RECURSIVE InsertByName(_, _, _)
InsertByName(sorted, p, items) ==
    IF sorted = <<>> THEN <<p>>
    ELSE IF LocaleCompareLess(items[p].name, items[Head(sorted)].name)
    THEN <<p>> \o sorted
    ELSE <<Head(sorted)>> \o InsertByName(Tail(sorted), p, items)

RECURSIVE SortByName(_, _)
SortByName(positions, items) ==
    IF positions = <<>> THEN <<>>
    ELSE InsertByName(SortByName(SubSeq(positions, 1, Len(positions) - 1), items),
                      positions[Len(positions)], items)

\* sectionDefaults of a generator constructed without configuration
SectionDefaults == [addEndComment |-> TRUE]

\* mergedOptions of section(): the section's own value of an option, else
\* the generator's sectionDefaults value; order and metadata have no
\* default and the model always passes sortItems
MergeOptions(sectionDefaults, options) ==
    [order |-> options.order, sortItems |-> options.sortItems,
     addEndComment |->
         IF options.addEndComment = <<>> THEN sectionDefaults.addEndComment
         ELSE options.addEndComment[1],
     metadata |-> options.metadata]

\* new SectionImpl(name, mergedOptions); metadata is <<>> when the option is
\* not given, else <<entries>>, the key/value pairs in insertion order
NewSection(name, options) ==
    [name |-> name, order |-> options.order, sortItems |-> options.sortItems,
     addEndComment |-> options.addEndComment, metadata |-> options.metadata,
     items |-> <<>>]

\* the CodeItem addImports pushes
ImportItem(moduleSpecifier, b) ==
    [type |-> "import", name |-> moduleSpecifier, isString |-> TRUE,
     node |-> <<>>, comments |-> <<>>, importsBuilder |-> <<b>>]

\* the code ObjectBuilderImpl.generate() returns for a named object with one
\* string-valued property
ObjectCode(name, value) ==
    <<"const", name, "=", "{", "\n", "setup", ":", "\"">> \o value
    \o <<"\"", "\n", "}", ";">>

\* the CodeItem addObject pushes: the generated code, stored as a string
ObjectItem(name, value) ==
    [type |-> "object", name |-> name, isString |-> TRUE,
     node |-> ObjectCode(name, value), comments |-> <<>>,
     importsBuilder |-> <<>>]

\* the printer's text of the interface declaration InterfaceBuilderImpl
\* builds for one property
InterfaceCode(name, propertyType) ==
    <<"interface", name, "{", "\n", "user", ":", propertyType, ";", "\n", "}">>

\* the CodeItem addInterface pushes: an AST node; comments are the
\* synthetic leading comments attached to that node
InterfaceItem(name, propertyType) ==
    [type |-> "interface", name |-> name, isString |-> FALSE,
     node |-> InterfaceCode(name, propertyType), comments |-> <<>>,
     importsBuilder |-> <<>>]

\* new TypeUsageTracker(): an empty identifier set
NewTypeUsageTracker == {}

\* the code of a non-import item as the scan phase sees it: the string, or
\* the node printed with removeComments
GeneratedCode(item) == item.node

ScanPhaseBeforeImportsOnly(items, positions) ==
    LET imports == {i \in 1..Len(items) : items[i].type = "import"}
    IN  UNION {ScanString(GeneratedCode(items[positions[k]])) :
                  k \in {j \in 1..Len(positions) :
                            \A i \in imports : positions[j] < i}}

\* the scan loop over sortedNonImportItems: what it adds to the tracker
ScanPhase(items, positions) ==
    UNION {ScanString(GeneratedCode(items[positions[k]])) :
              k \in 1..Len(positions)}

ReconcileImportItemOnCopy(item, usedIdentifiers) ==
    LET b == MarkUsedFromTracker(item.importsBuilder[1], usedIdentifiers)
    IN  [item EXCEPT !.node = ImportsGenerate(b)]

\* the body of importItems.forEach: reconcile, render, store the text
ReconcileImportItem(item, usedIdentifiers) ==
    LET b == MarkUsedFromTracker(item.importsBuilder[1], usedIdentifiers)
    IN  [item EXCEPT !.importsBuilder = <<b>>, !.node = ImportsGenerate(b)]

FilteredImportItemsKeepEmpty(items, importItems) == importItems

FilteredImportItemsReversed(items, importItems) ==
    LET kept == SelectSeq(importItems, LAMBDA p : items[p].node # <<>>)
    IN  [k \in 1..Len(kept) |-> kept[Len(kept) + 1 - k]]

\* filteredImportItems: the import items whose text is not empty
FilteredImportItems(items, importItems) ==
    SelectSeq(importItems, LAMBDA p : items[p].node # <<>>)

\* the comment text of the section header: name and description lines
SectionCommentLines(sec) == <<sec.name>>

\* the tagged line of one metadata entry: " * @key value\n", nothing for
\* an undefined value
MetadataLine(entry) ==
    IF entry[2] = Undefined THEN <<>>
    ELSE <<"*", "@", entry[1], entry[2], "\n">>

\* the tagged lines the string path writes for the section's metadata
MetadataLines(sec) ==
    IF sec.metadata = <<>> THEN <<>>
    ELSE Flatten([k \in 1..Len(sec.metadata[1]) |->
                     MetadataLine(sec.metadata[1][k])])

\* the header the string path writes by hand
StringSectionHeader(sec) ==
    <<"/**", "\n", "*">> \o SectionCommentLines(sec) \o <<"\n">>
    \o MetadataLines(sec) \o <<"*/", "\n">>

\* the synthetic leading comment of the AST path: `* ${comment} `
SectionLeadingComment(sec) ==
    <<"/**">> \o SectionCommentLines(sec) \o <<"*/", "\n">>

\* the not-emitted statement carrying "// End <name>"
EndComment(sec) == <<"//", "End", sec.name>>

\* printNode(node) with comments: synthetic leading comments, then the node
PrintNode(item) == Flatten(item.comments) \o item.node

\* SectionImpl.generate() with the tracker it constructs: the returned code,
\* the items as the call leaves them and the tracker's final contents
SectionRender(sec, initialIdentifiers) ==
    LET items == sec.items
        importItems == Ascending({i \in 1..Len(items) : items[i].type = "import"})
        nonImportItems == Ascending({i \in 1..Len(items) : items[i].type # "import"})
        sortedNonImportItems ==
            IF sec.sortItems THEN SortByName(nonImportItems, items)
            ELSE nonImportItems
        usedIdentifiers ==
            initialIdentifiers \cup ScanPhase(items, sortedNonImportItems)
        reconciled ==
            [i \in 1..Len(items) |->
                IF items[i].type = "import"
                THEN ReconcileImportItem(items[i], usedIdentifiers)
                ELSE items[i]]
        filteredImportItems == FilteredImportItems(reconciled, importItems)
        importStrings ==
            [k \in 1..Len(filteredImportItems) |->
                reconciled[filteredImportItems[k]].node]
        stringItems == SelectSeq(sortedNonImportItems, LAMBDA p : items[p].isString)
        stringNodes == [k \in 1..Len(stringItems) |-> items[stringItems[k]].node]
        astNodes == SelectSeq(sortedNonImportItems, LAMBDA p : ~items[p].isString)
    IN  IF Len(astNodes) = 0 /\ (Len(stringNodes) > 0 \/ Len(importStrings) > 0)
        THEN [code |->
                  StringSectionHeader(sec)
                  \o Join(importStrings, <<"\n">>)
                  \o (IF Len(importStrings) > 0 /\ Len(stringNodes) > 0
                      THEN <<"\n", "\n">> ELSE <<>>)
                  \o Join(stringNodes, <<"\n", "\n">>)
                  \o <<"\n">> \o EndComment(sec),
              items |-> reconciled,
              usedIdentifiers |-> usedIdentifiers]
        ELSE LET commented ==
                     [i \in 1..Len(items) |->
                         IF Len(astNodes) > 0 /\ i = astNodes[1]
                         THEN [reconciled[i] EXCEPT !.comments =
                                  Append(@, SectionLeadingComment(sec))]
                         ELSE reconciled[i]]
                 endComment ==
                     (IF Len(astNodes) = 0 THEN SectionLeadingComment(sec)
                      ELSE <<>>) \o EndComment(sec)
                 astCode ==
                     Join([k \in 1..Len(astNodes) |-> PrintNode(commented[astNodes[k]])]
                          \o <<endComment>>, <<"\n", "\n">>)
                 imports == Join(importStrings, <<"\n">>)
                 withStrings ==
                     IF Len(stringNodes) > 0
                     THEN imports
                          \o (IF imports # <<>> THEN <<"\n", "\n">> ELSE <<>>)
                          \o Join(stringNodes, <<"\n", "\n">>)
                     ELSE imports
             IN  [code |->
                      withStrings
                      \o (IF withStrings # <<>> THEN <<"\n", "\n">> ELSE <<>>)
                      \o astCode,
                  items |-> commented,
                  usedIdentifiers |-> usedIdentifiers]

\* SectionImpl.generate()
SectionGenerate(sec) == SectionRender(sec, NewTypeUsageTracker)

----------------------------------------------------------------------------
(* GeneratorImpl *)

\* the sort comparator of generate(): (a.order ?? MAX_SAFE_INTEGER) minus
\* (b.order ?? MAX_SAFE_INTEGER) is negative; an absent order is <<>>
OrderLessOrEqual(a, b) == a # <<>> /\ (b = <<>> \/ a[1] <= b[1])

OrderLess(a, b) == a # <<>> /\ (b = <<>> \/ a[1] < b[1])

RECURSIVE InsertByOrder(_, _, _)
InsertByOrder(sorted, p, secs) ==
    IF sorted = <<>> THEN <<p>>
    ELSE IF OrderLess(secs[p].order, secs[Head(sorted)].order)
    THEN <<p>> \o sorted
    ELSE <<Head(sorted)>> \o InsertByOrder(Tail(sorted), p, secs)

\* [...this.sections].sort(...): the positions of the sections, sorted
RECURSIVE SortByOrder(_, _)
SortByOrder(n, secs) ==
    IF n = 0 THEN <<>>
    ELSE InsertByOrder(SortByOrder(n - 1, secs), n, secs)

RECURSIVE GenerateSectionsSharedTracker(_)
GenerateSectionsSharedTracker(secs) ==
    IF secs = <<>> THEN <<>>
    ELSE LET front == GenerateSectionsSharedTracker(SubSeq(secs, 1, Len(secs) - 1))
             seen == IF front = <<>> THEN {}
                     ELSE front[Len(front)].usedIdentifiers
         IN  Append(front, SectionRender(secs[Len(secs)], seen))

\* sortedSections.map(section => section.generate())
GenerateSections(secs) ==
    [k \in 1..Len(secs) |-> SectionGenerate(secs[k])]

\* the document comment: `* ${headerComment.comment} `
HeaderComment == <<"/**", "Generated", "TypeScript", "code", "*/", "\n">>

\* position of the first token of the first statement of a text: the first
\* token outside comments that is not a line feed; 0 if there is none
RECURSIVE FirstStatement(_, _, _)
FirstStatement(code, i, mode) ==
    IF i > Len(code) THEN 0
    ELSE IF mode = "block"
    THEN FirstStatement(code, i + 1, IF code[i] = "*/" THEN "code" ELSE "block")
    ELSE IF mode = "line"
    THEN FirstStatement(code, i + 1, IF code[i] = "\n" THEN "code" ELSE "line")
    ELSE IF code[i] \in {"/**", "/*"} THEN FirstStatement(code, i + 1, "block")
    ELSE IF code[i] = "//" THEN FirstStatement(code, i + 1, "line")
    ELSE IF code[i] = "\n" THEN FirstStatement(code, i + 1, "code")
    ELSE i

\* the printer does not keep blank lines: runs of line feeds become one,
\* and none starts the file
RECURSIVE CollapseLineFeeds(_, _)
CollapseLineFeeds(code, afterLineFeed) ==
    IF code = <<>> THEN <<>>
    ELSE IF Head(code) = "\n"
    THEN (IF afterLineFeed THEN <<>> ELSE <<"\n">>)
         \o CollapseLineFeeds(Tail(code), TRUE)
    ELSE <<Head(code)>> \o CollapseLineFeeds(Tail(code), FALSE)

\* createSourceFile, the header comment on statements[0], printFile
PrintFile(combinedCode) ==
    LET first == FirstStatement(combinedCode, 1, "code")
        withHeader ==
            IF first = 0 THEN combinedCode
            ELSE SubSeq(combinedCode, 1, first - 1) \o HeaderComment
                 \o SubSeq(combinedCode, first, Len(combinedCode))
        collapsed == CollapseLineFeeds(withHeader, TRUE)
    IN  IF collapsed # <<>> /\ collapsed[Len(collapsed)] = "\n"
        THEN collapsed
        ELSE collapsed \o <<"\n">>

\* GeneratorImpl.generate(): the returned text, the section texts and the
\* sections as the call leaves them
GeneratorGenerate(secs) ==
    LET sorted == SortByOrder(Len(secs), secs)
        results == GenerateSections([k \in 1..Len(sorted) |-> secs[sorted[k]]])
        codes == [k \in 1..Len(sorted) |-> results[k].code]
    IN  [code |-> PrintFile(Join(codes, <<"\n", "\n">>)),
         sectionCodes |-> codes,
         sorted |-> sorted,
         sections |-> [i \in 1..Len(secs) |->
             [secs[i] EXCEPT !.items =
                 results[CHOOSE k \in 1..Len(sorted) : sorted[k] = i].items]]]

----------------------------------------------------------------------------
(* Spec: a generator driven through section(), the section handle's add    *)
(* operations and generate()                                               *)

MaxSections == 2
MaxItems == 3
MaxGenerates == 2

SectionNames == <<"Imports", "Types", "Component", "Extra", "More">>

\* the options record of a section() call that sets order and sortItems
\* and leaves addEndComment and metadata out
Options(order, sortItems) ==
    [order |-> order, sortItems |-> sortItems, addEndComment |-> <<>>,
     metadata |-> <<>>]

SectionOptionsSet ==
    {Options(<<>>, FALSE), Options(<<1>>, TRUE), Options(<<0>>, FALSE)}

\* the calls an addImports callback makes on its builder
CallNamed(name) == [op |-> "named", name |-> name, alias |-> Undefined]
CallMarkUsed(name) == [op |-> "markUsed", name |-> name, alias |-> Undefined]

ImportDeclarations ==
    {[moduleSpecifier |-> "./types",
      calls |-> <<CallNamed("User"), CallNamed("useState")>>],
     [moduleSpecifier |-> "react",
      calls |-> <<CallNamed("useState"), CallMarkUsed("useState")>>]}

\* string values of the object property the model adds
PropertyValues == {<<"useState", "(", "0", ")">>}
\* property types of the interface the model adds
PropertyTypes == {"User", "boolean"}

\* one call of the callback on the builder
ApplyCall(b, c) ==
    CASE c.op = "named" -> Named(b, c.name, c.alias)
      [] c.op = "default" -> Default(b, c.name)
      [] c.op = "namespace" -> Namespace(b, c.name)
      [] c.op = "markUsed" -> MarkUsed(b, c.name)
      [] c.op = "markDefaultUsed" -> MarkDefaultUsed(b)
      [] c.op = "markNamespaceUsed" -> MarkNamespaceUsed(b)

\* callback(builder)
RECURSIVE ApplyCalls(_, _)
ApplyCalls(b, calls) ==
    IF calls = <<>> THEN b
    ELSE ApplyCalls(ApplyCall(b, Head(calls)), Tail(calls))

RECURSIVE CountItems(_)
CountItems(secs) ==
    IF secs = <<>> THEN 0 ELSE Len(Head(secs).items) + CountItems(Tail(secs))

TotalItems == CountItems(sections) + CountItems(building)

GCall(op, options) ==
    [op |-> op, name |-> Undefined, alias |-> Undefined, tracker |-> {},
     options |-> options, replaced |-> Undefined]

Init ==
    /\ builder = NewImportsBuilder("react", DefaultImportOptions)
    /\ call = GCall("new", DefaultImportOptions)
    /\ rendered = <<>>
    /\ sections = <<>>
    /\ building = <<>>
    /\ output = <<>>
    /\ prevOutput = <<>>
    /\ sectionCodes = <<>>
    /\ modified = FALSE
    /\ generates = 0
    /\ usageTracker = {}
    /\ raised = Undefined

\* section(name, options, callback) up to the start of the callback
SectionBeginWith(options) ==
    /\ building = <<>>
    /\ Len(sections) < MaxSections
    /\ Len(sections) < Len(SectionNames)
    /\ building' = <<NewSection(SectionNames[Len(sections) + 1],
                                MergeOptions(SectionDefaults, options))>>
    /\ call' = GCall("section", DefaultImportOptions)
    /\ raised' = Undefined
    /\ output' = <<>>
    /\ prevOutput' = <<>>
    /\ sectionCodes' = <<>>
    /\ UNCHANGED <<builder, rendered, usageTracker, sections, modified,
                   generates>>

SectionBegin == \E options \in SectionOptionsSet : SectionBeginWith(options)

\* an add operation that pushes item onto the section under construction
Push(op, item) ==
    /\ building' = <<[building[1] EXCEPT !.items = Append(@, item)]>>
    /\ call' = GCall(op, DefaultImportOptions)
    /\ raised' = Undefined
    /\ UNCHANGED <<builder, rendered, usageTracker, sections, output, prevOutput,
                   sectionCodes, modified, generates>>

\* addImports(moduleSpecifier, callback)
AddImports ==
    \E d \in ImportDeclarations :
        /\ building # <<>>
        /\ TotalItems < MaxItems
        /\ Push("addImports",
                ImportItem(d.moduleSpecifier,
                           ApplyCalls(NewImportsBuilder(d.moduleSpecifier,
                                                        DefaultImportOptions),
                                      d.calls)))

\* addImports(moduleSpecifier, options, callback): the method has two
\* parameters, so options is bound to callback and callback(builder) raises
\* a TypeError, which leaves section() before the section is pushed
AddImportsWithOptions ==
    \E d \in ImportDeclarations, options \in RegistryOptions :
        /\ building # <<>>
        /\ TotalItems < MaxItems
        /\ building' = <<>>
        /\ call' = GCall("addImports", options)
        /\ raised' = "TypeError"
        /\ UNCHANGED <<builder, rendered, usageTracker, sections, output, prevOutput,
                       sectionCodes, modified, generates>>

\* addObject(options, callback)
AddObject ==
    \E value \in PropertyValues :
        /\ building # <<>>
        /\ TotalItems < MaxItems
        /\ Push("addObject", ObjectItem("Beta", value))

\* addInterface(name, callback)
AddInterface ==
    \E type \in PropertyTypes :
        /\ building # <<>>
        /\ TotalItems < MaxItems
        /\ Push("addInterface", InterfaceItem("Alpha", type))

\* the callback returns and section() pushes the section
SectionEnd ==
    /\ building # <<>>
    /\ sections' = Append(sections, building[1])
    /\ building' = <<>>
    /\ modified' = TRUE
    /\ call' = GCall("sectionEnd", DefaultImportOptions)
    /\ raised' = Undefined
    /\ UNCHANGED <<builder, rendered, usageTracker, output, prevOutput, sectionCodes,
                   generates>>

\* generate(); prevOutput keeps the previous text when the generator was not
\* modified since it was returned
Generate ==
    /\ building = <<>>
    /\ generates < MaxGenerates
    /\ LET result == GeneratorGenerate(sections)
       IN  /\ output' = result.code
           /\ sectionCodes' = result.sectionCodes
           /\ sections' = result.sections
    /\ prevOutput' = IF generates > 0 /\ ~modified THEN <<output>> ELSE <<>>
    /\ modified' = FALSE
    /\ generates' = generates + 1
    /\ call' = GCall("generate", DefaultImportOptions)
    /\ raised' = Undefined
    /\ UNCHANGED <<builder, rendered, usageTracker, building>>

Next ==
    \/ SectionBegin
    \/ AddImports
    \/ AddImportsWithOptions
    \/ AddObject
    \/ AddInterface
    \/ SectionEnd
    \/ Generate

Spec == Init /\ [][Next]_vars

----------------------------------------------------------------------------
(* SpecSection: one SectionImpl driven through its add operations and its  *)
(* generate()                                                              *)

MaxSectionItems == 3

\* display names of the non-import items
ItemNames == {"Alpha", "Beta"}

\* the addImports calls made on the section
SectionImportDeclarations ==
    {[moduleSpecifier |-> "react",
      calls |-> <<CallNamed("useState"), CallNamed("useEffect"),
                  CallNamed("useContext")>>],
     [moduleSpecifier |-> "./hooks",
      calls |-> <<CallNamed("useContext"), CallNamed("useEffect")>>],
     [moduleSpecifier |-> "./types",
      calls |-> <<CallNamed("User")>>]}

\* string values of the object property: useState(0); useEffect(() => {})
\* and useContext(x)
SectionPropertyValues ==
    {<<"useState", "(", "0", ")", ";", "useEffect", "(", "(", ")", "=", ">",
       "{", "}", ")">>,
     <<"useContext", "(", "x", ")">>}

\* metadata of the section: one entry with a value, one without
SectionMetadata == <<<<"source", "api">>, <<"draft", Undefined>>>>

\* the generator's sectionDefaults and the options of the section() call
\* that constructed the section
SectionConstructions ==
    {<<SectionDefaults, Options(<<>>, FALSE)>>,
     <<SectionDefaults, Options(<<1>>, TRUE)>>,
     <<SectionDefaults,
       [Options(<<>>, FALSE) EXCEPT !.metadata = <<SectionMetadata>>]>>,
     <<SectionDefaults,
       [Options(<<>>, FALSE) EXCEPT !.addEndComment = <<FALSE>>]>>,
     <<[addEndComment |-> FALSE], Options(<<>>, FALSE)>>,
     <<[addEndComment |-> FALSE],
       [Options(<<>>, FALSE) EXCEPT !.addEndComment = <<TRUE>>]>>}

InitSection ==
    /\ builder = NewImportsBuilder("react", DefaultImportOptions)
    /\ rendered = <<>>
    /\ call = GCall("new", DefaultImportOptions)
    /\ sections = <<>>
    /\ \E c \in SectionConstructions :
           building = <<NewSection("Types", MergeOptions(c[1], c[2]))>>
    /\ output = <<>>
    /\ prevOutput = <<>>
    /\ sectionCodes = <<>>
    /\ modified = FALSE
    /\ generates = 0
    /\ usageTracker = {}
    /\ raised = Undefined

\* an add operation of the section: items.push(item)
SPush(op, item) ==
    /\ building' = <<[building[1] EXCEPT !.items = Append(@, item)]>>
    /\ call' = GCall(op, DefaultImportOptions)
    /\ sectionCodes' = <<>>
    /\ usageTracker' = {}
    /\ raised' = Undefined
    /\ UNCHANGED <<builder, rendered, sections, output, prevOutput, modified,
                   generates>>

\* addImports(moduleSpecifier, callback)
SAddImports ==
    \E d \in SectionImportDeclarations :
        /\ Len(building[1].items) < MaxSectionItems
        /\ SPush("addImports",
                 ImportItem(d.moduleSpecifier,
                            ApplyCalls(NewImportsBuilder(d.moduleSpecifier,
                                                         DefaultImportOptions),
                                       d.calls)))

\* addObject(options, callback)
SAddObject ==
    \E name \in ItemNames, value \in SectionPropertyValues :
        /\ Len(building[1].items) < MaxSectionItems
        /\ SPush("addObject", ObjectItem(name, value))

\* addInterface(name, callback)
SAddInterface ==
    \E name \in ItemNames, type \in PropertyTypes :
        /\ Len(building[1].items) < MaxSectionItems
        /\ SPush("addInterface", InterfaceItem(name, type))

\* generate(): the returned text, the items as the call leaves them and the
\* contents of the tracker the call constructed
SGenerate ==
    /\ generates < MaxGenerates
    /\ LET result == SectionGenerate(building[1])
       IN  /\ sectionCodes' = <<result.code>>
           /\ building' = <<[building[1] EXCEPT !.items = result.items]>>
           /\ usageTracker' = result.usedIdentifiers
    /\ generates' = generates + 1
    /\ call' = GCall("generate", DefaultImportOptions)
    /\ raised' = Undefined
    /\ UNCHANGED <<builder, rendered, sections, output, prevOutput, modified>>

NextSection ==
    \/ SAddImports
    \/ SAddObject
    \/ SAddInterface
    \/ SGenerate

SpecSection == InitSection /\ [][NextSection]_vars

----------------------------------------------------------------------------
(* SpecPass: SectionImpl.generate() of one section, one loop iteration at  *)
(* a time                                                                  *)

AfterScanReplacing(usedIdentifiers, code) == ScanString(code)

\* the tracker's identifier set after scanString(code): identifiers are
\* added, none is removed
AfterScan(usedIdentifiers, code) == usedIdentifiers \cup ScanString(code)

\* the tracker's identifier set after markUsedFromTracker(tracker) on a
\* registry: the method calls isUsed only, which reads the set
AfterReconcile(usedIdentifiers, b) == usedIdentifiers

\* importItems, as positions in items
ImportItemPositions(sec) ==
    Ascending({i \in 1..Len(sec.items) : sec.items[i].type = "import"})

\* sortedNonImportItems, as positions in items
SortedNonImportPositions(sec) ==
    LET nonImportItems ==
            Ascending({i \in 1..Len(sec.items) : sec.items[i].type # "import"})
    IN  IF sec.sortItems THEN SortByName(nonImportItems, sec.items)
        ELSE nonImportItems

\* a call made inside generate(), with the number of iterations the scan
\* loop and the import loop have completed
PassCall(op, name, scanned, reconciled) ==
    [op |-> op, name |-> name, scanned |-> scanned, reconciled |-> reconciled]

\* generate() was entered and has not returned
PassRunning ==
    call.op \in {"new TypeUsageTracker", "scanString", "markUsedFromTracker"}

\* generate() up to new TypeUsageTracker()
PBegin ==
    /\ ~PassRunning
    /\ generates < MaxGenerates
    /\ usageTracker' = NewTypeUsageTracker
    /\ call' = PassCall("new TypeUsageTracker", Undefined, 0, 0)
    /\ sectionCodes' = <<>>
    /\ raised' = Undefined
    /\ UNCHANGED <<builder, rendered, sections, building, output, prevOutput,
                   modified, generates>>

\* one iteration of sortedNonImportItems.forEach
PScan ==
    /\ PassRunning
    /\ call.scanned < Len(SortedNonImportPositions(building[1]))
    /\ LET item == building[1].items[
                       SortedNonImportPositions(building[1])[call.scanned + 1]]
       IN  /\ usageTracker' = AfterScan(usageTracker, GeneratedCode(item))
           /\ call' = PassCall("scanString", item.name, call.scanned + 1, 0)
    /\ UNCHANGED <<builder, rendered, sections, building, output, prevOutput,
                   sectionCodes, modified, generates, raised>>

\* one iteration of importItems.forEach
PReconcile ==
    /\ PassRunning
    /\ call.scanned = Len(SortedNonImportPositions(building[1]))
    /\ call.reconciled < Len(ImportItemPositions(building[1]))
    /\ LET items == building[1].items
           p == ImportItemPositions(building[1])[call.reconciled + 1]
       IN  /\ building' =
                 <<[building[1] EXCEPT !.items =
                       [i \in 1..Len(items) |->
                           IF i = p
                           THEN ReconcileImportItem(items[i], usageTracker)
                           ELSE items[i]]]>>
           /\ usageTracker' =
                 AfterReconcile(usageTracker, items[p].importsBuilder[1])
           /\ call' = PassCall("markUsedFromTracker", items[p].name,
                                call.scanned, call.reconciled + 1)
    /\ UNCHANGED <<builder, rendered, sections, output, prevOutput,
                   sectionCodes, modified, generates, raised>>

\* the rest of generate(): the text is assembled and returned
PReturn ==
    /\ PassRunning
    /\ call.scanned = Len(SortedNonImportPositions(building[1]))
    /\ call.reconciled = Len(ImportItemPositions(building[1]))
    /\ LET result == SectionRender(building[1], usageTracker)
       IN  /\ sectionCodes' = <<result.code>>
           /\ building' = <<[building[1] EXCEPT !.items = result.items]>>
    /\ generates' = generates + 1
    /\ call' = GCall("generate", DefaultImportOptions)
    /\ raised' = Undefined
    /\ UNCHANGED <<builder, rendered, usageTracker, sections, output,
                   prevOutput, modified>>

\* the add operations, between generate() calls
PAddImports == ~PassRunning /\ SAddImports
PAddObject == ~PassRunning /\ SAddObject
PAddInterface == ~PassRunning /\ SAddInterface

NextPass ==
    \/ PAddImports
    \/ PAddObject
    \/ PAddInterface
    \/ PBegin
    \/ PScan
    \/ PReconcile
    \/ PReturn

SpecPass == InitSection /\ [][NextPass]_vars

----------------------------------------------------------------------------
(* Control-flow builders: IfStatementBuilderImpl, LoopBuilderImpl and its  *)
(* subclasses, SwitchStatementBuilderImpl                                  *)

\* new BlockBuilderImpl() after a callback that adds nothing
NewBlock == [statements |-> <<>>]

\* BlockBuilderImpl.generateNode(), printed
BlockNode(block) == <<"{">> \o Flatten(block.statements) \o <<"}">>

\* a control-flow builder after its callback: the construct, the condition
\* (or switch expression) string and the then/body block, Undefined and <<>>
\* standing for a field never set
StatementBuilder(kind, expr, block) ==
    [kind |-> kind, expr |-> expr, block |-> block]

\* JavaScript's !value on string | undefined
Falsy(value) == value = Undefined \/ value = ""

\* LoopBuilderImpl.getBodyNode(): the error it throws, if any
GetBodyNodeError(b) ==
    IF b.block = <<>> THEN "Body is required for loop statement" ELSE Undefined

GenerateNodeErrorUnchecked(b) == Undefined

\* the error generateNode() throws for a builder, Undefined if none
GenerateNodeError(b) ==
    CASE b.kind = "if" ->
           IF Falsy(b.expr) THEN "Condition is required for if statement"
           ELSE IF b.block = <<>>
           THEN "Then block is required for if statement"
           ELSE Undefined
      [] b.kind = "for" -> GetBodyNodeError(b)
      [] b.kind = "while" ->
           IF Falsy(b.expr) THEN "Condition is required for while statement"
           ELSE GetBodyNodeError(b)
      [] b.kind = "doWhile" ->
           IF Falsy(b.expr)
           THEN "Condition is required for do-while statement"
           ELSE GetBodyNodeError(b)
      [] b.kind = "switch" ->
           IF Falsy(b.expr)
           THEN "Expression is required for switch statement"
           ELSE Undefined

\* the printed node generateNode() returns for a complete builder
GenerateNode(b) ==
    LET expr == IF b.expr = Undefined THEN <<>> ELSE <<b.expr>>
        block == IF b.block = <<>> THEN <<>> ELSE BlockNode(b.block[1])
    IN  CASE b.kind = "if" -> <<"if", "(">> \o expr \o <<")">> \o block
          [] b.kind = "for" ->
               <<"for", "(", ";">> \o expr \o <<";", ")">> \o block
          [] b.kind = "while" -> <<"while", "(">> \o expr \o <<")">> \o block
          [] b.kind = "doWhile" ->
               <<"do">> \o block \o <<"while", "(">> \o expr \o <<")", ";">>
          [] b.kind = "switch" ->
               <<"switch", "(">> \o expr \o <<")", "{", "}">>

\* the CodeItem addIf, addSwitch, addFor, addWhile and addDoWhile push
StatementItem(b) ==
    [type |-> b.kind, name |-> b.kind, isString |-> FALSE,
     node |-> GenerateNode(b), comments |-> <<>>, importsBuilder |-> <<>>]

----------------------------------------------------------------------------
(* SpecStatements: a generator whose section callbacks add control-flow    *)
(* constructs                                                              *)

\* what a callback may leave in the condition or expression field
Expressions == {Undefined, "", "x"}
\* what a callback may leave in the then or body field
Blocks == {<<>>, <<NewBlock>>}

AddStatementErrorSwallowed(op, b) ==
    /\ builder' = b
    /\ call' = GCall(op, DefaultImportOptions)
    /\ raised' = GenerateNodeError(b)
    /\ building' =
         IF GenerateNodeError(b) # Undefined THEN building
         ELSE <<[building[1] EXCEPT !.items = Append(@, StatementItem(b))]>>
    /\ UNCHANGED <<rendered, usageTracker, sections, output, prevOutput,
                   sectionCodes, modified, generates>>

\* addIf, addSwitch, addFor, addWhile, addDoWhile: the callback configures
\* the builder, generateNode() runs, and either the item is pushed or the
\* error leaves the add operation and section() before the section is
\* pushed
AddStatement(op, b) ==
    /\ builder' = b
    /\ call' = GCall(op, DefaultImportOptions)
    /\ raised' = GenerateNodeError(b)
    /\ building' =
         IF GenerateNodeError(b) # Undefined THEN <<>>
         ELSE <<[building[1] EXCEPT !.items = Append(@, StatementItem(b))]>>
    /\ UNCHANGED <<rendered, usageTracker, sections, output, prevOutput,
                   sectionCodes, modified, generates>>

AddIf ==
    \E expr \in Expressions, block \in Blocks :
        /\ building # <<>>
        /\ TotalItems < MaxItems
        /\ AddStatement("addIf", StatementBuilder("if", expr, block))

AddFor ==
    \E block \in Blocks :
        /\ building # <<>>
        /\ TotalItems < MaxItems
        /\ AddStatement("addFor", StatementBuilder("for", "x", block))

AddWhile ==
    \E expr \in Expressions, block \in Blocks :
        /\ building # <<>>
        /\ TotalItems < MaxItems
        /\ AddStatement("addWhile", StatementBuilder("while", expr, block))

AddDoWhile ==
    \E expr \in Expressions, block \in Blocks :
        /\ building # <<>>
        /\ TotalItems < MaxItems
        /\ AddStatement("addDoWhile", StatementBuilder("doWhile", expr, block))

AddSwitch ==
    \E expr \in Expressions :
        /\ building # <<>>
        /\ TotalItems < MaxItems
        /\ AddStatement("addSwitch", StatementBuilder("switch", expr, <<>>))

\* section(name, callback): no options given
SectionBeginDefault ==
    SectionBeginWith(Options(<<>>, FALSE))

NextStatements ==
    \/ SectionBeginDefault
    \/ AddIf
    \/ AddFor
    \/ AddWhile
    \/ AddDoWhile
    \/ AddSwitch
    \/ SectionEnd
    \/ Generate

SpecStatements == Init /\ [][NextStatements]_vars

----------------------------------------------------------------------------
(* Properties *)

\* a step of Spec that is a generate() call
GenerateStep == generates' = generates + 1

\* positions of the import items and of the other items of a section
ImportPositions(sec) ==
    {i \in 1..Len(sec.items) : sec.items[i].type = "import"}
OtherPositions(sec) ==
    {i \in 1..Len(sec.items) : sec.items[i].type # "import"}

\* identifiers a scan finds in the non-import items of one section
OwnReferences(sec) ==
    UNION {ScanString(sec.items[j].node) : j \in OtherPositions(sec)}

\* where section s of secs stands in the order generate() emits sections
EmitPosition(secs, s) ==
    CHOOSE k \in 1..Len(secs) : SortByOrder(Len(secs), secs)[k] = s

\* C1: calling generate() twice on a generator that is not modified between
\* the calls returns identical text.
C1_GenerateTwiceIdentical ==
    prevOutput # <<>> => output = prevOutput[1]

\* C2: in Section.generate() every non-import item is scanned before any
\* import registry is reconciled: a named import whose name is referenced by
\* a non-import item added after the import was declared is marked used and
\* its statement is part of the section's text and of the generator's text.
C2_ScanPrecedesReconcile ==
    [][GenerateStep =>
        \A s \in 1..Len(sections) :
          \A i \in ImportPositions(sections[s]), j \in OtherPositions(sections[s]) :
            i < j =>
              \A k \in 1..Len(sections[s].items[i].importsBuilder[1].namedImports) :
                LET imp == sections[s].items[i].importsBuilder[1].namedImports[k]
                    after == sections'[s].items[i]
                IN  imp.name \in ScanString(sections[s].items[j].node) =>
                      /\ after.importsBuilder[1].namedImports[k].used
                      /\ Contains(after.node, <<LocalName(imp)>>)
                      /\ Contains(sectionCodes'[EmitPosition(sections, s)], after.node)
                      /\ Contains(output', after.node)
    ]_vars

\* C2 witness: generate() has run on a section in which the import from
\* "./types" (declared without any mark) comes before the only items that
\* reference useState, and the statement holds useState.
C2_Witness ==
    /\ call.op = "generate"
    /\ \E s \in 1..Len(sections) :
         \E i \in ImportPositions(sections[s]), j \in OtherPositions(sections[s]) :
            /\ i < j
            /\ sections[s].items[i].name = "./types"
            /\ "useState" \in ScanString(sections[s].items[j].node)
            /\ \A j2 \in OtherPositions(sections[s]) :
                 j2 < i => "useState" \notin ScanString(sections[s].items[j2].node)
            /\ Contains(sections[s].items[i].node, <<"useState">>)
            /\ Contains(output, sections[s].items[i].node)

C4_CrossSectionDetection ==
    [][GenerateStep =>
        \A s \in 1..Len(sections) :
          \A i \in ImportPositions(sections[s]) :
            LET b == sections[s].items[i].importsBuilder[1]
                names == {b.namedImports[k].name : k \in 1..Len(b.namedImports)}
                everywhere == UNION {OwnReferences(sections[t]) :
                                        t \in 1..Len(sections)}
            IN  (/\ \A k \in 1..Len(b.namedImports) : ~b.namedImports[k].used
                 /\ names \cap OwnReferences(sections[s]) = {}
                 /\ names \cap everywhere # {})
                => Contains(output', ImportsGenerate(MarkUsedFromTracker(b, everywhere)))
    ]_vars

\* C5: an explicit mark always wins: generate() called right after
\* markUsed(name), markDefaultUsed() or markNamespaceUsed() renders the
\* binding that the call marked.
C5_ExplicitMarkWins ==
    [][call'.op = "generate" =>
        /\ call.op = "markUsed" =>
             \A i \in 1..Len(builder.namedImports) :
               (builder.namedImports[i].name = call.name
                /\ builder.namedImports[i].used)
               => Contains(rendered', PrintImportSpecifier(
                      [propertyName |->
                           IF builder.namedImports[i].alias # Undefined
                           THEN builder.namedImports[i].name ELSE Undefined,
                       name |-> LocalName(builder.namedImports[i])]))
        /\ (call.op = "markDefaultUsed" /\ builder.defaultImport # <<>>)
             => \/ Contains(rendered', <<builder.defaultImport[1].name, "from">>)
                \/ Contains(rendered', <<builder.defaultImport[1].name, ",">>)
        /\ (call.op = "markNamespaceUsed" /\ builder.namespaceImport # <<>>)
             => Contains(rendered', <<"*", "as", builder.namespaceImport[1].name>>)
    ]_vars

\* C6: addImports(module, { includeUnused: true }, callback) on the section
\* handle appends a registry with includeUnused set, which renders every
\* binding the callback declared.
C6_IncludeUnusedThroughSection ==
    [][(call'.op = "addImports" /\ call'.options.includeUnused) =>
        /\ building' # <<>>
        /\ Len(building'[1].items) > 0
        /\ LET item == building'[1].items[Len(building'[1].items)]
           IN  /\ item.type = "import"
               /\ item.importsBuilder[1].includeUnused
               /\ \A k \in 1..Len(item.importsBuilder[1].namedImports) :
                    Contains(ImportsGenerate(item.importsBuilder[1]),
                             <<LocalName(item.importsBuilder[1].namedImports[k])>>)
    ]_vars

\* C7: reconciliation sets used on a still-unmarked binding if and only if
\* the tracker reports the binding's local name (the alias of an aliased
\* named import).
C7_ReconcileByLocalName ==
    [][call'.op = "markUsedFromTracker" =>
        /\ Len(builder'.namedImports) = Len(builder.namedImports)
        /\ \A i \in 1..Len(builder.namedImports) :
             ~builder.namedImports[i].used =>
               (builder'.namedImports[i].used
                  <=> LocalName(builder.namedImports[i]) \in call'.tracker)
        /\ \A i \in 1..Len(builder.defaultImport) :
             ~builder.defaultImport[i].used =>
               (builder'.defaultImport[i].used
                  <=> builder.defaultImport[i].name \in call'.tracker)
        /\ \A i \in 1..Len(builder.namespaceImport) :
             ~builder.namespaceImport[i].used =>
               (builder'.namespaceImport[i].used
                  <=> builder.namespaceImport[i].name \in call'.tracker)
    ]_vars

\* C8: reconciliation never revokes a mark: a binding that is used before a
\* markUsedFromTracker call is used after it, whatever the tracker holds.
C8_ReconcileNeverRevokes ==
    [][call'.op = "markUsedFromTracker" =>
        /\ Len(builder'.namedImports) = Len(builder.namedImports)
        /\ Len(builder'.defaultImport) = Len(builder.defaultImport)
        /\ Len(builder'.namespaceImport) = Len(builder.namespaceImport)
        /\ \A i \in 1..Len(builder.namedImports) :
             builder.namedImports[i].used => builder'.namedImports[i].used
        /\ \A i \in 1..Len(builder.defaultImport) :
             builder.defaultImport[i].used => builder'.defaultImport[i].used
        /\ \A i \in 1..Len(builder.namespaceImport) :
             builder.namespaceImport[i].used => builder'.namespaceImport[i].used
    ]_vars

\* C8 witness: a reconcile call has returned on a registry holding a used
\* named binding and a used default binding that the tracker did not report.
C8_Witness ==
    /\ call.op = "markUsedFromTracker"
    /\ \E i \in 1..Len(builder.namedImports) :
         /\ builder.namedImports[i].used
         /\ builder.namedImports[i].name \notin call.tracker
    /\ builder.defaultImport # <<>>
    /\ builder.defaultImport[1].used
    /\ builder.defaultImport[1].name \notin call.tracker

\* a section without the import items at the given positions
WithoutItems(sec, positions) ==
    [sec EXCEPT !.items =
        [k \in 1..(Len(sec.items) - Cardinality(positions)) |->
            sec.items[Ascending((1..Len(sec.items)) \ positions)[k]]]]

\* the import items of a section that hold no used binding after generate()
\* and do not include unused ones
EmptyRegistries(sec) ==
    {i \in ImportPositions(sec) :
        LET b == sec.items[i].importsBuilder[1]
        IN  /\ ~b.includeUnused
            /\ \A k \in 1..Len(b.namedImports) : ~b.namedImports[k].used
            /\ \A k \in 1..Len(b.defaultImport) : ~b.defaultImport[k].used
            /\ \A k \in 1..Len(b.namespaceImport) : ~b.namespaceImport[k].used}

\* C9: a registry with no binding marked used and includeUnused false
\* renders to empty text and contributes nothing to the section's text: the
\* text is the one the section yields without that import item, and
\* generate() does not raise.
C9_EmptyRegistryContributesNothing ==
    [][GenerateStep =>
        /\ raised' = Undefined
        /\ \A s \in 1..Len(sections) :
             LET empties == EmptyRegistries(sections'[s])
             IN  /\ \A i \in empties : sections'[s].items[i].node = <<>>
                 /\ sectionCodes'[EmitPosition(sections, s)]
                      = SectionGenerate(WithoutItems(sections[s], empties)).code
    ]_vars

\* C9 witness: generate() has run on a section that holds other content and
\* an import item whose registry has no used binding; the section's text
\* holds no import statement.
C9_Witness ==
    /\ call.op = "generate"
    /\ \E s \in 1..Len(sections) :
         /\ EmptyRegistries(sections[s]) # {}
         /\ EmptyRegistries(sections[s]) = ImportPositions(sections[s])
         /\ OtherPositions(sections[s]) # {}
         /\ ~Contains(sectionCodes[EmitPosition(sections, s)], <<"import">>)

\* C10: the named bindings of a registry are unique by (sourceName,
\* localName), localName being sourceName when no alias is given.
C10_NamedUniqueByPair ==
    \A i, j \in 1..Len(builder.namedImports) :
        i # j =>
            <<builder.namedImports[i].name, LocalName(builder.namedImports[i])>>
              # <<builder.namedImports[j].name, LocalName(builder.namedImports[j])>>

\* C11: a registry holds at most one default binding and at most one
\* namespace binding in every state, and a default(name) or namespace(name)
\* call leaves exactly the binding it names, not marked used, whatever
\* binding was there before, without raising.
C11_SingleDefaultAndNamespace ==
    [][/\ Len(builder'.defaultImport) <= 1
       /\ Len(builder'.namespaceImport) <= 1
       /\ call'.op = "default" =>
            /\ builder'.defaultImport = <<[name |-> call'.name, used |-> FALSE]>>
            /\ builder'.namespaceImport = builder.namespaceImport
            /\ builder'.namedImports = builder.namedImports
            /\ raised' = Undefined
       /\ call'.op = "namespace" =>
            /\ builder'.namespaceImport = <<[name |-> call'.name, used |-> FALSE]>>
            /\ builder'.defaultImport = builder.defaultImport
            /\ builder'.namedImports = builder.namedImports
            /\ raised' = Undefined
    ]_vars

\* C11 witness: default("useState") has returned on a registry whose default
\* binding was User: the registry now holds the one default binding
\* useState.
C11_Witness ==
    /\ call.op = "default"
    /\ call.replaced = "User"
    /\ call.name = "useState"
    /\ builder.defaultImport = <<[name |-> "useState", used |-> FALSE]>>

\* position of the first occurrence of a token in a text, 0 if none
FirstIndex(text, token) ==
    IF \E i \in 1..Len(text) : text[i] = token
    THEN CHOOSE i \in 1..Len(text) :
             text[i] = token /\ \A j \in 1..(i - 1) : text[j] # token
    ELSE 0

\* the tokens between the braces of an import statement's named group
NamedGroup(text) ==
    SubSeq(text, FirstIndex(text, "{") + 1, FirstIndex(text, "}") - 1)

\* the declared (name, alias) pairs of a registry's named bindings
Declared(b) ==
    [i \in 1..Len(b.namedImports) |->
        <<b.namedImports[i].name, b.namedImports[i].alias>>]

\* the specifiers of the named bindings that generate() includes, in the
\* order of their declaration
IncludedSpecifiers(b) ==
    LET included == SelectSeq(b.namedImports,
                              LAMBDA imp : b.includeUnused \/ imp.used)
    IN  [i \in 1..Len(included) |->
            IF included[i].alias # Undefined
            THEN <<included[i].name, "as", included[i].alias>>
            ELSE <<included[i].name>>]

\* C12: no call reorders the declared named bindings (a mark leaves every
\* binding at its place, a declaration appends), and the named group of a
\* rendered statement lists the included bindings in declaration order,
\* after the default binding when one is included.
C12_DeclarationOrderKept ==
    [][/\ Len(Declared(builder')) >= Len(Declared(builder))
       /\ SubSeq(Declared(builder'), 1, Len(Declared(builder)))
             = Declared(builder)
       /\ (call'.op = "generate" /\ Contains(rendered', <<"{">>)) =>
            /\ NamedGroup(rendered')
                 = Join(IncludedSpecifiers(builder), <<",">>)
            /\ (builder.defaultImport # <<>>
                /\ (builder.includeUnused \/ builder.defaultImport[1].used))
               => LET d == FirstIndex(rendered', builder.defaultImport[1].name)
                  IN  /\ d > 0
                      /\ d < FirstIndex(rendered', "{")
                      /\ rendered'[d + 1] = ","
    ]_vars

\* C12 witness: generate() has rendered a registry in which useState was
\* declared before User, both are used and the default binding is used: the
\* statement lists the default binding, then useState, then User.
C12_Witness ==
    /\ call.op = "generate"
    /\ Declared(builder) = <<<<"useState", Undefined>>, <<"User", Undefined>>>>
    /\ builder.defaultImport # <<>>
    /\ Contains(rendered, <<builder.defaultImport[1].name, ",", "{",
                            "useState", ",", "User", "}", "from">>)

\* C13: when the default and the namespace binding of a registry are both
\* eligible for rendering, the statement that generate() returns holds the
\* namespace binding and not the default binding.
C13_NamespaceExcludesDefault ==
    [][(/\ call'.op = "generate"
        /\ builder.defaultImport # <<>>
        /\ builder.namespaceImport # <<>>
        /\ builder.includeUnused \/ builder.defaultImport[1].used
        /\ builder.includeUnused \/ builder.namespaceImport[1].used)
       => /\ Contains(rendered', <<"*", "as", builder.namespaceImport[1].name>>)
          /\ ~Contains(rendered', <<builder.defaultImport[1].name, ",">>)
          /\ rendered'[IF builder.typeOnly THEN 3 ELSE 2] = "*"
    ]_vars

\* the statement import { useState, useEffect } from "react";
ImportStateAndEffect ==
    <<"import", "{", "useState", ",", "useEffect", "}", "from", "\"", "react",
      "\"", ";">>

\* the section holds an object whose property value is
\* useState(0); useEffect(() => {}) and no item that mentions useContext
MentionsStateAndEffectOnly(sec) ==
    /\ \E j \in OtherPositions(sec) :
         /\ sec.items[j].type = "object"
         /\ Contains(sec.items[j].node, <<"\"", "useState", "(", "0", ")">>)
         /\ Contains(sec.items[j].node,
                     <<"useEffect", "(", "(", ")", "=", ">", "{", "}", ")", "\"">>)
    /\ \A j \in OtherPositions(sec) :
         ~Contains(sec.items[j].node, <<"useContext">>)

\* the import items of a section that declare useState, useEffect and
\* useContext from "react", none marked
UnmarkedHookImports(sec) ==
    {i \in ImportPositions(sec) :
        LET b == sec.items[i].importsBuilder[1]
        IN  /\ b.moduleSpecifier = "react"
            /\ Declared(b) = <<<<"useState", Undefined>>,
                               <<"useEffect", Undefined>>,
                               <<"useContext", Undefined>>>>
            /\ \A k \in 1..Len(b.namedImports) : ~b.namedImports[k].used}

\* C14: with useState, useEffect and useContext declared from "react" and
\* not marked, and an object whose string property value holds useState(0)
\* and useEffect(() => {}), the section's generate() emits exactly
\* import { useState, useEffect } from "react"; and no useContext.
C14_OnlyReferencedHooksImported ==
    [][(GenerateStep /\ MentionsStateAndEffectOnly(building[1])) =>
        \A i \in UnmarkedHookImports(building[1]) :
            /\ building'[1].items[i].node = ImportStateAndEffect
            /\ Contains(sectionCodes'[1], ImportStateAndEffect)
            /\ ~Contains(sectionCodes'[1], <<"useContext">>)
    ]_vars

\* C14 witness: generate() has returned on a section that holds the three
\* hook imports from "react" and the object that calls useState and
\* useEffect; the text holds the import of the two.
C14_Witness ==
    /\ call.op = "generate"
    /\ MentionsStateAndEffectOnly(building[1])
    /\ \E i \in ImportPositions(building[1]) :
         /\ Len(building[1].items[i].importsBuilder[1].namedImports) = 3
         /\ building[1].items[i].node = ImportStateAndEffect
    /\ Contains(sectionCodes[1], ImportStateAndEffect)

\* C15: a scanString call whose code holds a keyword of the stoplist only
\* inside a string literal adds no stoplist keyword; scanning the literal
\* 'if (x) { doThing(); }' adds doThing and does not add if.
C15_StoplistNeverAdded ==
    [][call'.op = "scanString" =>
        /\ (usageTracker' \ usageTracker) \cap Stoplist = {}
        /\ call'.name = "'if (x) { doThing(); }'" =>
             /\ IsUsed(usageTracker', "doThing")
             /\ IsUsed(usageTracker', "x")
             /\ IsUsed(usageTracker', "if") <=> IsUsed(usageTracker, "if")
    ]_vars

\* the components of the qualified names scanned
Components(source) ==
    CASE source = "Foo.Bar" -> {"Foo", "Bar"}
      [] source = "A.B.C" -> {"A", "B", "C"}
      [] OTHER -> {}

\* C16: after scanNode on a reference to a qualified name, isUsed is true
\* for every component of the name, not only for its last one.
C16_QualifiedNameComponents ==
    [][call'.op = "scanNode" =>
        \A c \in Components(call'.name) : IsUsed(usageTracker', c)
    ]_vars

\* C16 witness: scanNode has returned on the reference to A.B.C with a
\* tracker that held none of the components before (it holds nothing
\* else): A, B and C are used.
C16_Witness ==
    /\ call.op = "scanNode"
    /\ call.name = "A.B.C"
    /\ usageTracker = {"A", "B", "C"}

\* position at which part first occurs in text as a run of tokens, 0 if none
IndexOf(text, part) ==
    LET starts == {i \in 1..(Len(text) - Len(part) + 1) :
                      SubSeq(text, i, i + Len(part) - 1) = part}
    IN  IF starts = {} THEN 0
        ELSE CHOOSE i \in starts : \A j \in starts : i <= j

\* the statements of the import items that survive, in the order of their
\* addImports calls
SurvivingImports(sec) ==
    LET kept == SelectSeq(Ascending(ImportPositions(sec)),
                          LAMBDA p : sec.items[p].node # <<>>)
    IN  [k \in 1..Len(kept) |-> sec.items[kept[k]].node]

\* C17: in the text a section's generate() returns, the surviving import
\* statements stand together, one per line, in the order of their
\* addImports calls whatever sortItems says, and the code of every
\* non-import item comes after the last of them.
C17_ImportsFirstInCallOrder ==
    [][GenerateStep =>
        LET code == sectionCodes'[1]
            sec == building'[1]
            block == Join(SurvivingImports(sec), <<"\n">>)
            start == IndexOf(code, <<"import">>)
        IN  block # <<>> =>
              /\ start > 0
              /\ SubSeq(code, start, start + Len(block) - 1) = block
              /\ ~Contains(SubSeq(code, start + Len(block), Len(code)),
                           <<"import">>)
              /\ \A j \in OtherPositions(sec) :
                   /\ IndexOf(code, sec.items[j].node) >= start + Len(block)
                   /\ ~Contains(SubSeq(code, 1, start + Len(block) - 1),
                                sec.items[j].node)
    ]_vars

\* C17 witness: generate() has returned on a section with sortItems set
\* whose items are an object, then the import from "react", then the import
\* from "./hooks": the text holds the statement from "react", then the one
\* from "./hooks", then the object.
C17_Witness ==
    /\ call.op = "generate"
    /\ building[1].sortItems
    /\ Len(building[1].items) = 3
    /\ building[1].items[1].type = "object"
    /\ building[1].items[2].name = "react"
    /\ building[1].items[3].name = "./hooks"
    /\ building[1].items[2].node # <<>>
    /\ building[1].items[3].node # <<>>
    /\ IndexOf(sectionCodes[1], building[1].items[2].node)
         < IndexOf(sectionCodes[1], building[1].items[3].node)
    /\ IndexOf(sectionCodes[1], building[1].items[3].node)
         < IndexOf(sectionCodes[1], building[1].items[1].node)

\* the non-import positions of a section in their partitioned order: as
\* added, or by display name when sortItems is set
PartitionedOrder(sec) ==
    IF sec.sortItems
    THEN SortByName(Ascending(OtherPositions(sec)), sec.items)
    ELSE Ascending(OtherPositions(sec))

\* C18: the text a section's generate() returns holds the code of the
\* non-import items in their partitioned order, whether an item is a
\* structured node or a pre-rendered string.
C18_PartitionedOrderKept ==
    [][GenerateStep =>
        LET code == sectionCodes'[1]
            sec == building'[1]
            order == PartitionedOrder(building[1])
        IN  \A a, b \in 1..Len(order) :
              (a < b /\ sec.items[order[a]].node # sec.items[order[b]].node)
              => IndexOf(code, sec.items[order[a]].node)
                   < IndexOf(code, sec.items[order[b]].node)
    ]_vars

\* where the text of section s stands among the texts generate() collected
\* (every section's text ends with the comment End <name>)
EmittedAt(codes, secs, s) ==
    CHOOSE k \in 1..Len(codes) : Contains(codes[k], <<"//", "End", secs[s].name>>)

\* does section a go before section b: a smaller order, or the same order
\* (or both without one) and an earlier section() call
GoesBefore(secs, a, b) ==
    \/ secs[a].order # <<>> /\ secs[b].order = <<>>
    \/ secs[a].order # <<>> /\ secs[b].order # <<>>
         /\ secs[a].order[1] < secs[b].order[1]
    \/ secs[a].order = secs[b].order /\ a < b

\* C19: generate() emits the sections in ascending order of their order
\* option, a section without the option after those with it, and sections
\* with equal or no order in the order of their section() calls.
C19_SectionsInStableOrder ==
    [][GenerateStep =>
        /\ Len(sectionCodes') = Len(sections)
        /\ \A a, b \in 1..Len(sections) :
             GoesBefore(sections, a, b) =>
               /\ EmittedAt(sectionCodes', sections, a)
                    < EmittedAt(sectionCodes', sections, b)
               /\ IndexOf(output', <<"//", "End", sections[a].name>>)
                    < IndexOf(output', <<"//", "End", sections[b].name>>)
               /\ IndexOf(output', <<"//", "End", sections[a].name>>) > 0
    ]_vars

\* C19 witness: generate() has returned on a generator whose first section
\* has order 1 and whose second has order 0: the second section's text is
\* emitted first.
C19_Witness ==
    /\ call.op = "generate"
    /\ Len(sections) = 2
    /\ sections[1].order = <<1>>
    /\ sections[2].order = <<0>>
    /\ Contains(sectionCodes[1], <<"//", "End", sections[2].name>>)
    /\ IndexOf(output, <<"//", "End", sections[2].name>>)
         < IndexOf(output, <<"//", "End", sections[1].name>>)

\* the message that names a missing piece and the kind of construct
RequiredMessage(piece, kind) ==
    CASE <<piece, kind>> = <<"Condition", "if">> ->
           "Condition is required for if statement"
      [] <<piece, kind>> = <<"Then block", "if">> ->
           "Then block is required for if statement"
      [] <<piece, kind>> = <<"Body", "loop">> ->
           "Body is required for loop statement"
      [] <<piece, kind>> = <<"Condition", "while">> ->
           "Condition is required for while statement"
      [] <<piece, kind>> = <<"Condition", "doWhile">> ->
           "Condition is required for do-while statement"
      [] <<piece, kind>> = <<"Expression", "switch">> ->
           "Expression is required for switch statement"

\* the messages that report a piece missing from the builder
MissingPieces(b) ==
    (IF b.kind \in {"if", "while", "doWhile"} /\ Falsy(b.expr)
     THEN {RequiredMessage("Condition", b.kind)} ELSE {})
    \cup (IF b.kind = "if" /\ b.block = <<>>
          THEN {RequiredMessage("Then block", "if")} ELSE {})
    \cup (IF b.kind \in {"for", "while", "doWhile"} /\ b.block = <<>>
          THEN {RequiredMessage("Body", "loop")} ELSE {})
    \cup (IF b.kind = "switch" /\ Falsy(b.expr)
          THEN {RequiredMessage("Expression", "switch")} ELSE {})

\* a step that is an add operation for a control-flow construct
AddStatementStep ==
    call'.op \in {"addIf", "addFor", "addWhile", "addDoWhile", "addSwitch"}

\* C20: an add operation for a construct that lacks a required piece raises
\* an error whose message names a missing piece and the construct kind,
\* and appends nothing; a complete construct raises nothing and is
\* appended.
C20_MissingPieceRaises ==
    [][AddStatementStep =>
        IF MissingPieces(builder') # {}
        THEN /\ raised' \in MissingPieces(builder')
             /\ building' = <<>>
             /\ sections' = sections
        ELSE /\ raised' = Undefined
             /\ building'[1].items
                  = Append(building[1].items, StatementItem(builder'))
    ]_vars

\* C20 witness: addWhile has raised for a loop that has a condition and no
\* body; the section under construction is gone and no section was added.
C20_Witness ==
    /\ call.op = "addWhile"
    /\ builder.expr = "x"
    /\ builder.block = <<>>
    /\ raised = "Body is required for loop statement"
    /\ building = <<>>
    /\ Len(sections) = 1

\* the construct-level configuration errors
ConfigurationErrors ==
    {RequiredMessage("Condition", "if"), RequiredMessage("Then block", "if"),
     RequiredMessage("Body", "loop"), RequiredMessage("Condition", "while"),
     RequiredMessage("Condition", "doWhile"),
     RequiredMessage("Expression", "switch")}

\* C21: a construct-level configuration error surfaces to the caller of
\* generate(): the generate() call that follows a section callback which
\* configured an invalid construct raises that error and returns no text
\* for any section.
C21_ErrorSurfacesAtGenerate ==
    [][(GenerateStep /\ raised \in ConfigurationErrors) =>
        /\ raised' \in ConfigurationErrors
        /\ output' = <<>>
        /\ sectionCodes' = <<>>
    ]_vars

\* the metadata entries of a section whose value is defined
DefinedEntries(sec) ==
    IF sec.metadata = <<>> THEN {}
    ELSE {sec.metadata[1][k] : k \in {j \in 1..Len(sec.metadata[1]) :
                                         sec.metadata[1][j][2] # Undefined}}

\* C22: the text a section's generate() returns holds a tagged line
\* (@key value) for every metadata entry of the section, whether its items
\* are pre-rendered strings, structured nodes or a mix.
C22_MetadataTagsInHeader ==
    [][GenerateStep =>
        \A e \in DefinedEntries(building[1]) :
            Contains(sectionCodes'[1], <<"@", e[1], e[2]>>)
    ]_vars

\* C23: the text a section's generate() returns holds the end-marker
\* comment (// End <name>) when the section's merged addEndComment option
\* is true and does not hold it when the option is false.
C23_EndCommentOptional ==
    [][GenerateStep =>
        (Contains(sectionCodes'[1], EndComment(building[1]))
             <=> building[1].addEndComment)
    ]_vars

\* C24: within one generate() call of a section, a scan removes no
\* identifier from the tracker's set, and reconciling an import registry
\* and assembling the text leave the set as it is.
C24_TrackerGrowsThenFrozen ==
    [][PassRunning =>
        /\ call'.op = "scanString" => usageTracker \subseteq usageTracker'
        /\ call'.op \in {"markUsedFromTracker", "generate"} =>
              usageTracker' = usageTracker
    ]_vars

\* C24 witness: inside one generate() call two items were scanned, the
\* tracker holds identifiers of both, and an import registry was reconciled
\* against it and rendered a statement.
C24_Witness ==
    /\ call.op = "markUsedFromTracker"
    /\ call.scanned = 2
    /\ {"useState", "User"} \subseteq usageTracker
    /\ \E i \in 1..Len(building[1].items) :
         /\ building[1].items[i].type = "import"
         /\ building[1].items[i].node # <<>>

\* the item one run of an addImports callback leaves on a fresh builder
ConfiguredImportItems ==
    {ImportItem(d.moduleSpecifier,
                ApplyCalls(NewImportsBuilder(d.moduleSpecifier,
                                             DefaultImportOptions),
                           d.calls)) : d \in ImportDeclarations}

\* C25: every callback has run exactly once when the operation that
\* received it returns: an addImports call returns with one item appended
\* whose builder holds what one run of its callback declared, a section is
\* registered with the items its callback added, and generate() runs no
\* callback (it adds no item and declares no binding).
C25_CallbacksRunBeforeReturn ==
    [][/\ call'.op = "addImports" =>
            /\ building # <<>>
            /\ building' # <<>>
            /\ \E item \in ConfiguredImportItems :
                 building'[1].items = Append(building[1].items, item)
       /\ Len(sections') > Len(sections) =>
            /\ building # <<>>
            /\ sections' = Append(sections, building[1])
       /\ GenerateStep =>
            /\ Len(sections') = Len(sections)
            /\ \A i \in 1..Len(sections) :
                 /\ Len(sections'[i].items) = Len(sections[i].items)
                 /\ \A k \in ImportPositions(sections[i]) :
                      Declared(sections'[i].items[k].importsBuilder[1])
                        = Declared(sections[i].items[k].importsBuilder[1])
    ]_vars

\* includeNamespace of generate(): the namespace binding is declared and is
\* used or covered by includeUnused
IncludeNamespace(b) ==
    b.namespaceImport # <<>> /\ (b.includeUnused \/ b.namespaceImport[1].used)

\* C26: when generate() includes the registry's namespace binding, the
\* statement holds the namespace binding and no named group, it is the
\* statement the registry would render without any named binding, and no
\* error is raised.
C26_NamespaceDropsNamed ==
    [][(call'.op = "generate" /\ IncludeNamespace(builder)) =>
        /\ Contains(rendered', <<"*", "as", builder.namespaceImport[1].name>>)
        /\ \A k \in 1..Len(rendered') : rendered'[k] \notin {"{", "}"}
        /\ rendered' = ImportsGenerate([builder EXCEPT !.namedImports = <<>>])
        /\ raised' = Undefined
    ]_vars

\* C26 witness: generate() rendered a namespace statement for a registry
\* that also holds a named binding marked used.
C26_Witness ==
    /\ call.op = "generate"
    /\ IncludeNamespace(builder)
    /\ \E i \in 1..Len(builder.namedImports) : builder.namedImports[i].used
    /\ Contains(rendered, <<"*", "as">>)

\* C27: markDefaultUsed() and markNamespaceUsed() change nothing when the
\* binding is not declared and otherwise set used on that binding alone;
\* default(name) and namespace(name) leave a binding with used = false,
\* whatever was declared or marked before.
C27_MarksOnlyCurrentBinding ==
    [][/\ call'.op = "markDefaultUsed" =>
            builder' = IF builder.defaultImport = <<>> THEN builder
                       ELSE [builder EXCEPT !.defaultImport =
                                <<[name |-> builder.defaultImport[1].name,
                                   used |-> TRUE]>>]
       /\ call'.op = "markNamespaceUsed" =>
            builder' = IF builder.namespaceImport = <<>> THEN builder
                       ELSE [builder EXCEPT !.namespaceImport =
                                <<[name |-> builder.namespaceImport[1].name,
                                   used |-> TRUE]>>]
       /\ call'.op = "default" =>
            builder'.defaultImport = <<[name |-> call'.name, used |-> FALSE]>>
       /\ call'.op = "namespace" =>
            builder'.namespaceImport = <<[name |-> call'.name, used |-> FALSE]>>
    ]_vars

\* C27 witness: markDefaultUsed() was called with no default binding
\* declared, beside an unmarked namespace binding and a marked named
\* binding.
C27_Witness ==
    /\ call.op = "markDefaultUsed"
    /\ builder.defaultImport = <<>>
    /\ builder.namespaceImport # <<>>
    /\ ~builder.namespaceImport[1].used
    /\ \E i \in 1..Len(builder.namedImports) : builder.namedImports[i].used

\* C28: markUsed(name) sets used on the first declared named binding whose
\* exported name is name, whatever its alias, and changes no other binding;
\* when no named binding has that name the registry is unchanged; no error
\* is raised.
C28_MarkUsedFirstByName ==
    [][call'.op = "markUsed" =>
        LET hits == {i \in 1..Len(builder.namedImports) :
                        builder.namedImports[i].name = call'.name}
        IN  /\ raised' = Undefined
            /\ hits = {} => builder' = builder
            /\ hits # {} =>
                 LET first == CHOOSE i \in hits : \A j \in hits : i <= j
                 IN  /\ Len(builder'.namedImports) = Len(builder.namedImports)
                     /\ builder'.namedImports[first] =
                          [name |-> builder.namedImports[first].name,
                           alias |-> builder.namedImports[first].alias,
                           used |-> TRUE]
                     /\ \A i \in 1..Len(builder.namedImports) :
                          i # first =>
                            builder'.namedImports[i] = builder.namedImports[i]
                     /\ builder'.defaultImport = builder.defaultImport
                     /\ builder'.namespaceImport = builder.namespaceImport
    ]_vars

\* C28 witness: markUsed(name) was called on a registry with two named
\* bindings of that exported name, the first one aliased to another
\* declared name; the first is marked and the second is not.
C28_Witness ==
    /\ call.op = "markUsed"
    /\ Len(builder.namedImports) = 2
    /\ builder.namedImports[1].name = call.name
    /\ builder.namedImports[2].name = call.name
    /\ builder.namedImports[1].alias # Undefined
    /\ builder.namedImports[1].used
    /\ ~builder.namedImports[2].used

\* is named binding k of import item i in the statement that the last
\* generate() stored for the item
RenderedBinding(sec, i, k) ==
    Contains(sec.items[i].node,
             <<LocalName(sec.items[i].importsBuilder[1].namedImports[k])>>)

C30_FailedAddAbandonsSection ==
    [][/\ (AddStatementStep /\ raised' \in ConfigurationErrors) =>
            /\ building # <<>>
            /\ building' = <<>>
            /\ sections' = sections
            /\ UNCHANGED <<output, sectionCodes>>
       /\ (GenerateStep /\ raised \in ConfigurationErrors) =>
            /\ raised' = Undefined
            /\ Len(sections') = Len(sections)
            /\ Len(sectionCodes') = Len(sections)
            /\ \A s \in 1..Len(sections) :
                 /\ sections'[s].name = sections[s].name
                 /\ Len(sections'[s].items) = Len(sections[s].items)
                 /\ Contains(sectionCodes'[EmitPosition(sections, s)],
                             EndComment(sections[s]))
                 /\ Contains(output', EndComment(sections[s]))
                 /\ \A i \in 1..Len(sections[s].items) :
                      Contains(output', sections[s].items[i].node)
            /\ \A k \in 1..Len(output') :
                 output'[k] # SectionNames[Len(sections) + 1]
    ]_vars

\* C30 witness: generate() has returned after the last add operation, an
\* addIf without a condition, raised inside a later section callback; the
\* one registered section is still there with its item and is in the text.
C30_Witness ==
    /\ call.op = "generate"
    /\ "kind" \in DOMAIN builder
    /\ builder.kind = "if"
    /\ Falsy(builder.expr)
    /\ Len(sections) = 1
    /\ Len(sections[1].items) = 1
    /\ sections[1].items[1].type = "while"
    /\ Contains(output, sections[1].items[1].node)
    /\ Contains(output, EndComment(sections[1]))
    /\ \A k \in 1..Len(output) : output[k] # SectionNames[2]

====
